---- MODULE Spec2Model ----
(***************************************************************************)
(* Model of the two release/asset scripts of productionMacroApp:           *)
(*   publish.py            version bump, build and upload (Spec)           *)
(*   convert_to_vector.py  PNG to SVG wrapping            (ConvSpec)       *)
(* Text is a sequence of one-character strings; files hold such sequences. *)
(***************************************************************************)
EXTENDS Integers, Sequences, FiniteSets, TLC

\* ------------------------------------------------------------------ bounds
\* Number of lines of the generated pyproject.toml files.
MaxLines == 2
\* Longest version text of the manifests of the version-step specification.
MaxVersionLen == 6
\* Image sides are drawn around the multiples of 256 up to 256 * MaxUnits.
MaxUnits == 4

\* ------------------------------------------------------------ characters
\* A file that does not exist (no text is a one-element sequence of this).
Absent == <<"<absent>">>
\* An unset local variable.
None == <<"<none>">>

\* The characters Python's \s and str.strip() treat as whitespace.
Whitespace == {" ", "\t", "\n", "\r", "\f"}
\* The class ["\'] of the version pattern.
Quotes == {"\"", "'"}
Digits == {"0", "1", "2", "3", "4", "5", "6", "7", "8", "9"}

DigitVal(c) ==
    CASE c = "0" -> 0 [] c = "1" -> 1 [] c = "2" -> 2 [] c = "3" -> 3
      [] c = "4" -> 4 [] c = "5" -> 5 [] c = "6" -> 6 [] c = "7" -> 7
      [] c = "8" -> 8 [] c = "9" -> 9

DigitChar(d) ==
    CASE d = 0 -> "0" [] d = 1 -> "1" [] d = 2 -> "2" [] d = 3 -> "3"
      [] d = 4 -> "4" [] d = 5 -> "5" [] d = 6 -> "6" [] d = 7 -> "7"
      [] d = 8 -> "8" [] d = 9 -> "9"

\* Whether the literal w occurs in s at position i.
StartsAt(s, i, w) ==
    /\ i >= 1
    /\ i + Len(w) - 1 <= Len(s)
    /\ SubSeq(s, i, i + Len(w) - 1) = w

\* First position >= i of s holding a character outside the set cls
\* (Len(s) + 1 when there is none): where a greedy cls* stops.
RECURSIVE SkipWhile(_, _, _)
SkipWhile(s, i, cls) ==
    IF i > Len(s) \/ s[i] \notin cls THEN i ELSE SkipWhile(s, i + 1, cls)

\* First position >= i of s holding a character of the set cls
\* (Len(s) + 1 when there is none): where a greedy [^cls]* stops.
RECURSIVE SkipUntil(_, _, _)
SkipUntil(s, i, cls) ==
    IF i > Len(s) \/ s[i] \in cls THEN i ELSE SkipUntil(s, i + 1, cls)

\* ---------------------------------------------------------- text-mode I/O
\* open(path, 'r').read(): universal newlines, "\r\n" and "\r" read as "\n".
\* The "\r" of a "\r\n" is dropped, any other "\r" becomes "\n".
ReadText(bytes) ==
    LET translated ==
            [i \in 1..Len(bytes) |->
                IF bytes[i] # "\r" THEN bytes[i]
                ELSE IF i < Len(bytes) /\ bytes[i + 1] = "\n" THEN "<dropped>"
                ELSE "\n"]
        Kept(c) == c # "<dropped>"
    IN  SelectSeq(translated, Kept)

\* open(path, 'w').write(text): "\n" is written as os.linesep.
RECURSIVE WriteText(_, _)
WriteText(text, os) ==
    IF text = <<>> THEN <<>>
    ELSE IF text[1] = "\n" /\ os = "nt"
         THEN <<"\r", "\n">> \o WriteText(Tail(text), os)
         ELSE <<text[1]>> \o WriteText(Tail(text), os)

\* ------------------------------------------------------- version pattern
VersionWord == <<"v", "e", "r", "s", "i", "o", "n">>

\* Where a match of  version\s*=\s*["\']([^"\']+)["\']  that starts at
\* position i of s ends, and its group 1; end = 0 when there is none.
\* Every quantifier is followed by a character outside its class, so the
\* greedy match is the only candidate at i.
VersionMatchAt(s, i) ==
    LET eq   == SkipWhile(s, i + Len(VersionWord), Whitespace)
        open == SkipWhile(s, eq + 1, Whitespace)
        close == SkipUntil(s, open + 1, Quotes)
    IN  IF /\ StartsAt(s, i, VersionWord)
           /\ eq <= Len(s) /\ s[eq] = "="
           /\ open <= Len(s) /\ s[open] \in Quotes
           /\ close > open + 1
           /\ close <= Len(s)
        THEN [start |-> i, end |-> close, group |-> SubSeq(s, open + 1, close - 1)]
        ELSE [start |-> i, end |-> 0, group |-> <<>>]

\* The scan of re.search: the match at the first start position >= i that
\* has one, end = 0 when no position has.
RECURSIVE VersionSearchFrom(_, _)
VersionSearchFrom(s, i) ==
    IF i > Len(s) THEN [start |-> 0, end |-> 0, group |-> <<>>]
    ELSE LET m == VersionMatchAt(s, i)
         IN  IF m.end # 0 THEN m ELSE VersionSearchFrom(s, i + 1)

\* re.search(r'version\s*=\s*["\']([^"\']+)["\']', content): the leftmost
\* match, end = 0 when the pattern is not found.
VersionSearch(s) == VersionSearchFrom(s, 1)

\* re.sub(pattern, repl, s, count): the non-overlapping matches of the
\* pattern, left to right from position i, each replaced by repl; count = 0
\* replaces them all, count = n > 0 only the first n.
RECURSIVE SubFrom(_, _, _, _)
SubFrom(s, i, repl, count) ==
    IF i > Len(s) THEN <<>>
    ELSE LET m == VersionMatchAt(s, i)
         IN  IF m.end = 0 THEN <<s[i]>> \o SubFrom(s, i + 1, repl, count)
             ELSE IF count = 1 THEN repl \o SubSeq(s, m.end + 1, Len(s))
             ELSE repl \o SubFrom(s, m.end + 1, repl,
                                  IF count = 0 THEN 0 ELSE count - 1)

\* The replacement text  f'version = "{new_version}"'.
Replacement(new_version) ==
    VersionWord \o <<" ", "=", " ", "\"">> \o new_version \o <<"\"">>

\* The call as a count=1 substitution would make it.
NewContentFirstOnly(content, new_version) ==
    SubFrom(content, 1, Replacement(new_version), 1)

\* A step that writes back the text it read, the substitution left out.
NewContentUnchanged(content, new_version) == content

\* new_content = re.sub(pattern, f'version = "{new_version}"', content)
NewContent(content, new_version) ==
    SubFrom(content, 1, Replacement(new_version), 0)

\* ------------------------------------------------------- version strings
\* str.split('.'): the pieces between the dots, empty pieces kept.
RECURSIVE Split(_)
Split(s) ==
    LET dot == SkipUntil(s, 1, {"."})
    IN  IF dot > Len(s) THEN <<s>>
        ELSE <<SubSeq(s, 1, dot - 1)>> \o Split(SubSeq(s, dot + 1, Len(s)))

\* str.strip(): leading and trailing whitespace removed.
RECURSIVE RStrip(_)
RStrip(s) ==
    IF s # <<>> /\ s[Len(s)] \in Whitespace
    THEN RStrip(SubSeq(s, 1, Len(s) - 1)) ELSE s

Strip(s) ==
    LET first == SkipWhile(s, 1, Whitespace)
    IN  RStrip(SubSeq(s, first, Len(s)))

\* The digit groups int() accepts: digits, single underscores between them.
RECURSIVE IsDigitString(_)
IsDigitString(s) ==
    /\ s # <<>>
    /\ s[1] \in Digits
    /\ \/ Len(s) = 1
       \/ IsDigitString(Tail(s))
       \/ Len(s) >= 3 /\ s[2] = "_" /\ IsDigitString(SubSeq(s, 3, Len(s)))

\* Value of a digit group, underscores skipped.
RECURSIVE DigitsValue(_)
DigitsValue(s) ==
    IF s = <<>> THEN 0
    ELSE IF s[Len(s)] = "_" THEN DigitsValue(SubSeq(s, 1, Len(s) - 1))
    ELSE 10 * DigitsValue(SubSeq(s, 1, Len(s) - 1)) + DigitVal(s[Len(s)])

\* The text left of int()'s argument once whitespace and a sign are removed.
Unsigned(s) ==
    LET t == Strip(s)
    IN  IF t # <<>> /\ t[1] \in {"+", "-"} THEN Tail(t) ELSE t

\* An int() that takes any text, reading what it cannot parse as 0.
IntParsesLenient(s) == TRUE

\* Whether int(s) returns rather than raising ValueError.
IntParses(s) == IsDigitString(Unsigned(s))

\* int(s) for a text it parses.
IntValue(s) ==
    LET t == Strip(s)
        v == IF IsDigitString(Unsigned(s)) THEN DigitsValue(Unsigned(s)) ELSE 0
    IN  IF t # <<>> /\ t[1] = "-" THEN 0 - v ELSE v

\* str(n) of a natural number.
RECURSIVE NatStr(_)
NatStr(n) ==
    IF n < 10 THEN <<DigitChar(n)>>
    ELSE NatStr(n \div 10) \o <<DigitChar(n % 10)>>

\* str(n), as the f-string formats new_patch.
IntStr(n) == IF n < 0 THEN <<"-">> \o NatStr(0 - n) ELSE NatStr(n)

\* A step that adds two.
NewPatchOffByOne(patch) == IntValue(patch) + 2

\* new_patch = int(patch) + 1
NewPatch(patch) == IntValue(patch) + 1

\* The test as  len(parts) < 3  would make it.
InvalidFormatTooFewOnly(parts) == Len(parts) < 3

\* len(parts) != 3
InvalidFormat(parts) == Len(parts) # 3

\* new_version = f"{major}.{minor}.{new_patch}"
NewVersion(parts) ==
    parts[1] \o <<".">> \o parts[2] \o <<".">> \o IntStr(NewPatch(parts[3]))

\* ------------------------------------------------------ credential pattern
ApiTokenWord == <<"a", "p", "i", "T", "o", "k", "e", "n">>

\* Where a match of  apiToken\s*=\s*(.+)  that starts at position i of s
\* ends, and its group 1; end = 0 when there is none.  "." matches anything
\* but "\n".  The second \s* is greedy; when it has run to the end of the
\* text it gives characters back until (.+) can start on one that is not "\n".
ApiTokenMatchAt(s, i) ==
    LET eq    == SkipWhile(s, i + Len(ApiTokenWord), Whitespace)
        after == SkipWhile(s, eq + 1, Whitespace)
        given == {m \in (eq + 1)..Len(s) : s[m] # "\n"}
        from  == IF after <= Len(s) THEN after
                 ELSE IF given = {} THEN 0
                 ELSE CHOOSE m \in given : \A n \in given : n <= m
        stop  == SkipUntil(s, from, {"\n"})
    IN  IF /\ StartsAt(s, i, ApiTokenWord)
           /\ eq <= Len(s) /\ s[eq] = "="
           /\ from # 0
        THEN [start |-> i, end |-> stop - 1, group |-> SubSeq(s, from, stop - 1)]
        ELSE [start |-> i, end |-> 0, group |-> <<>>]

\* The scan of re.search: the match at the first start position >= i that
\* has one, end = 0 when no position has.
RECURSIVE ApiTokenSearchFrom(_, _)
ApiTokenSearchFrom(s, i) ==
    IF i > Len(s) THEN [start |-> 0, end |-> 0, group |-> <<>>]
    ELSE LET m == ApiTokenMatchAt(s, i)
         IN  IF m.end # 0 THEN m ELSE ApiTokenSearchFrom(s, i + 1)

\* re.search(r'apiToken\s*=\s*(.+)', env_content): the leftmost match,
\* end = 0 when the pattern is not found.
ApiTokenSearch(s) == ApiTokenSearchFrom(s, 1)

\* ------------------------------------------------------------- the inputs
LF == <<"\n">>
CRLF == <<"\r", "\n">>

\* Lines a pyproject.toml is made of (without their line terminator).
ManifestLines ==
    { VersionWord \o <<" ", "=", " ", "\"", "1", ".", "2", ".", "3", "\"">>,
      VersionWord \o <<"=", "'", "0", "1", ".", "0", "2", ".", "0", "9", "'">>,
      <<"p", "y", "t", "h", "o", "n", "_">> \o VersionWord
          \o <<" ", "=", " ", "\"", "3", ".", "8", "\"">>,
      VersionWord \o <<" ", "=", " ", "\"", "1", ".", "2", ".", "3", ".", "4", "\"">>,
      VersionWord \o <<" ", "=", " ", "\"", "1", ".", "2", ".", "x", "\"">>,
      VersionWord \o <<" ", "=", " ", "\"", "1", ".", "2", ".", "3", "r", "c", "1", "\"">>,
      <<"n", "a", "m", "e", " ", "=", " ", "\"", "a", "i", "\"">> }

\* The file made of the given lines, each followed by the terminator eol.
RECURSIVE JoinLines(_, _)
JoinLines(lines, eol) ==
    IF lines = <<>> THEN <<>>
    ELSE lines[1] \o eol \o JoinLines(Tail(lines), eol)

\* The pyproject.toml files a run may find: none, or up to MaxLines lines.
ManifestFiles ==
    {Absent} \cup
    { JoinLines(ls, eol) :
        ls \in UNION {[1..n -> ManifestLines] : n \in 0..MaxLines},
        eol \in {LF, CRLF} }

\* The .env files a run may find.
EnvFiles ==
    { Absent,
      <<>>,
      ApiTokenWord \o <<" ", "=", " ", "p", "k", "\n">>,
      <<"u", "=", "1", "\r", "\n">> \o ApiTokenWord \o <<"=", "t", "\r", "\n">>,
      ApiTokenWord \o <<" ", "=", "\n">>,
      ApiTokenWord \o <<" ", "=", " ", "\n">>,
      <<"a", "p", "i", "t", "o", "k", "e", "n", "=", "t", "\n">> }

\* for folder in ['dist', 'build', 'airobo.egg-info']
Folders == <<"dist", "build", "airobo.egg-info">>

\* The build folders a run may find: none, a stale dist, all of a past build.
ExistingFolders == { {}, {"dist"}, {"dist", "build", "airobo.egg-info"} }

\* The exit codes an external command may return.
ExitCodes == {0, 1, 2}

\* ============================================================ publish.py
VARIABLES
    os_name,         \* os.name: "nt" or "posix"
    pyproject,       \* the bytes of pyproject.toml, or Absent
    pyproject_orig,  \* the bytes of pyproject.toml when the run started
    writes,          \* how many times pyproject.toml has been written
    env_file,        \* the bytes of .env as the run found it, None before
    pc,              \* the statement main() is at
    content,         \* locals of main()
    current_version,
    new_version,
    new_content,
    pypi_token,
    calls,           \* the child processes run so far, with their exit codes
    out,             \* the messages printed and the prompts shown so far
    conv_pc,         \* convert_to_vector.main(): the statement it is at
    conv_i,          \* the pair of conversions the loop is at
    sources,         \* appIcon.png and splash.png in the config directory
    svgs,            \* appIcon.svg and splash.svg in the config directory
    conv_out         \* the messages convert_to_vector.main() has printed

pubVars == <<os_name, pyproject, pyproject_orig, writes, env_file, pc, content,
             current_version, new_version, new_content, pypi_token, calls, out>>
convVars == <<conv_pc, conv_i, sources, svgs, conv_out>>
vars == <<pubVars, convVars>>

\* The child processes named cmd among those run so far.
CallsOf(cmd) == {i \in 1..Len(calls) : calls[i].cmd = cmd}

\* A halting branch: the diagnostic, input("Press Enter to exit..."), return.
\* On a closed standard input input() raises EOFError instead of returning;
\* the branch is inside the try block, so the handler of line 148 takes it.
Halt(msg) ==
    \/ /\ out' = out \o <<msg, "Press Enter to exit...">>
       /\ pc' = "returned"
    \/ /\ out' = out \o <<msg, "Press Enter to exit...", "Unexpected error: EOFError">>
       /\ pc' = "except"

\* An exception leaves the try block for the handler of line 148, whose
\* first line prints it with its message.
Raise(exc) ==
    /\ out' = out \o <<exc>>
    /\ pc' = "except"

\* if not toml_path.exists()
ManifestMissing(file) == file = Absent

\* Lines 40-44: locate the manifest.
LocateManifest ==
    /\ pc = "locate"
    /\ IF ManifestMissing(pyproject)
       THEN Halt("Error: pyproject.toml not found!")
       ELSE pc' = "extract" /\ UNCHANGED out
    /\ UNCHANGED <<os_name, pyproject, pyproject_orig, writes, env_file, content,
                   current_version, new_version, new_content, pypi_token, calls>>
    /\ UNCHANGED convVars

\* Lines 46-55: read the manifest and search it for the version.
ExtractVersion ==
    /\ pc = "extract"
    /\ content' = ReadText(pyproject)
    /\ LET version_match == VersionSearch(content')
       IN  IF version_match.end = 0
           THEN /\ Halt("Error: Could not find version in pyproject.toml!")
                /\ UNCHANGED current_version
           ELSE /\ current_version' = version_match.group
                /\ pc' = "increment"
                /\ UNCHANGED out
    /\ UNCHANGED <<os_name, pyproject, pyproject_orig, writes, env_file,
                   new_version, new_content, pypi_token, calls>>
    /\ UNCHANGED convVars

\* Lines 58-68: split the version, check its shape, increment the patch.
\* Unpacking line 64 raises ValueError on any other count than three, and
\* int() of line 65 raises it on a patch it cannot read.
IncrementVersion ==
    /\ pc = "increment"
    /\ LET parts == Split(current_version)
       IN  IF InvalidFormat(parts)
           THEN Halt("Error: Invalid version format") /\ UNCHANGED new_version
           ELSE IF Len(parts) # 3
           THEN Raise("Unexpected error: ValueError") /\ UNCHANGED new_version
           ELSE IF ~IntParses(parts[3])
           THEN Raise("Unexpected error: ValueError") /\ UNCHANGED new_version
           ELSE /\ new_version' = NewVersion(parts)
                /\ out' = out \o <<"Auto-incrementing version">>
                /\ pc' = "persist"
    /\ UNCHANGED <<os_name, pyproject, pyproject_orig, writes, env_file, content,
                   current_version, new_content, pypi_token, calls>>
    /\ UNCHANGED convVars

\* Lines 71-80: substitute the new version and write the manifest back.
\* (The version texts modelled hold no backslash, so the replacement
\* template has no escape for re.sub to expand.)
PersistVersion ==
    /\ pc = "persist"
    /\ new_content' = NewContent(content, new_version)
    /\ pyproject' = WriteText(new_content', os_name)
    /\ writes' = writes + 1
    /\ out' = out \o <<"Version updated in pyproject.toml">>
    /\ pc' = "clean"
    /\ UNCHANGED <<os_name, pyproject_orig, env_file, content, current_version,
                   new_version, pypi_token, calls>>
    /\ UNCHANGED convVars

\* The removal commands for the folders of Folders[i..] that exist.
RECURSIVE RemoveCalls(_, _)
RemoveCalls(existing, i) ==
    IF i > Len(Folders) THEN <<>>
    ELSE (IF Folders[i] \in existing
          THEN <<[cmd |-> IF os_name = "nt" THEN "rmdir" ELSE "rm",
                  arg |-> Folders[i], rc |-> 0]>>
          ELSE <<>>) \o RemoveCalls(existing, i + 1)

\* Lines 83-89: remove the build folders that exist.
CleanArtifacts ==
    /\ pc = "clean"
    /\ \E existing \in ExistingFolders :
           calls' = calls \o RemoveCalls(existing, 1)
    /\ out' = out \o <<"Cleaning old builds...">>
    /\ pc' = "build"
    /\ UNCHANGED <<os_name, pyproject, pyproject_orig, writes, env_file, content,
                   current_version, new_version, new_content, pypi_token>>
    /\ UNCHANGED convVars

\* A test that takes only exit code 1 for a failure.
CommandFailedOnlyOne(rc) == rc = 1

\* if result.returncode != 0
CommandFailed(rc) == rc # 0

\* Lines 92-99: run the build command.
Build ==
    /\ pc = "build"
    /\ \E rc \in ExitCodes :
        /\ calls' = Append(calls, [cmd |-> "build", arg |-> "", rc |-> rc])
        /\ IF CommandFailed(rc)
           THEN Halt("Build failed")
           ELSE /\ out' = out \o <<"Package built successfully!">>
                /\ pc' = "credential"
    /\ UNCHANGED <<os_name, pyproject, pyproject_orig, writes, env_file, content,
                   current_version, new_version, new_content, pypi_token>>
    /\ UNCHANGED convVars

\* A test that takes every search for a match.
TokenMissingNever(token_match) == FALSE

\* if not token_match
TokenMissing(token_match) == token_match.end = 0

\* Lines 102-117: read the upload token from .env.
ReadCredential ==
    /\ pc = "credential"
    /\ \E file \in EnvFiles :
        /\ env_file' = file
        /\ IF file = Absent
           THEN Halt("Error: .env file not found!") /\ UNCHANGED pypi_token
           ELSE LET token_match == ApiTokenSearch(ReadText(file))
                IN  IF TokenMissing(token_match)
                    THEN /\ Halt("Error: Could not find apiToken in .env!")
                         /\ UNCHANGED pypi_token
                    ELSE /\ pypi_token' = Strip(token_match.group)
                         /\ pc' = "upload"
                         /\ UNCHANGED out
    /\ UNCHANGED <<os_name, pyproject, pyproject_orig, writes, content,
                   current_version, new_version, new_content, calls>>
    /\ UNCHANGED convVars

\* Lines 120-133: run the upload command; it may also fail to start
\* (twine not installed: subprocess.run raises FileNotFoundError).
Upload ==
    /\ pc = "upload"
    /\ \/ \E rc \in ExitCodes :
            /\ calls' = Append(calls, [cmd |-> "twine", arg |-> pypi_token, rc |-> rc])
            /\ IF CommandFailed(rc)
               THEN Halt("Upload failed")
               ELSE /\ out' = out \o <<"Successfully published version">>
                    /\ pc' = "refresh"
       \/ /\ Raise("Unexpected error: FileNotFoundError")
          /\ UNCHANGED calls
    /\ UNCHANGED <<os_name, pyproject, pyproject_orig, writes, env_file, content,
                   current_version, new_version, new_content, pypi_token>>
    /\ UNCHANGED convVars

\* Lines 136-146: upgrade the local installation; its exit code is not read.
Refresh ==
    /\ pc = "refresh"
    /\ \E rc \in ExitCodes :
           calls' = Append(calls, [cmd |-> "pip", arg |-> "airobo", rc |-> rc])
    /\ out' = out \o <<"SUCCESS!">>
    /\ pc' = "finished"
    /\ UNCHANGED <<os_name, pyproject, pyproject_orig, writes, env_file, content,
                   current_version, new_version, new_content, pypi_token>>
    /\ UNCHANGED convVars

\* Lines 148-150: the top-level handler prints the error's type name and
\* falls through to the closing banner.
HandleException ==
    /\ pc = "except"
    /\ out' = out \o <<"Error details">>
    /\ pc' = "finished"
    /\ UNCHANGED <<os_name, pyproject, pyproject_orig, writes, env_file, content,
                   current_version, new_version, new_content, pypi_token, calls>>
    /\ UNCHANGED convVars

\* Lines 152-161: the closing banner and the final prompt; on EOFError or
\* KeyboardInterrupt the run sleeps ten seconds instead.
FinalPrompt ==
    /\ pc = "finished"
    /\ \/ out' = out \o <<"Script finished!", "Press Enter to close this window...">>
       \/ out' = out \o <<"Script finished!", "Press Enter to close this window...",
                          "Forcing terminal to stay open for 10 seconds...">>
    /\ pc' = "closed"
    /\ UNCHANGED <<os_name, pyproject, pyproject_orig, writes, env_file, content,
                   current_version, new_version, new_content, pypi_token, calls>>
    /\ UNCHANGED convVars

\* The converter does not run in a publisher run.
ConvIdle ==
    /\ conv_pc = "idle"
    /\ conv_i = 0
    /\ sources = <<>>
    /\ svgs = <<>>
    /\ conv_out = <<>>

Init ==
    /\ os_name \in {"nt", "posix"}
    /\ pyproject \in ManifestFiles
    /\ pyproject_orig = pyproject
    /\ writes = 0
    /\ env_file = None
    /\ pc = "locate"
    /\ content = None
    /\ current_version = None
    /\ new_version = None
    /\ new_content = None
    /\ pypi_token = None
    /\ calls = <<>>
    /\ out = <<>>
    /\ ConvIdle

Next ==
    \/ LocateManifest
    \/ ExtractVersion
    \/ IncrementVersion
    \/ PersistVersion
    \/ CleanArtifacts
    \/ Build
    \/ ReadCredential
    \/ Upload
    \/ Refresh
    \/ HandleException
    \/ FinalPrompt

Spec == Init /\ [][Next]_vars

\* ------------------------------------------- the version steps on their own
\* The characters the version texts are made of.
VersionChars == {"0", "9", ".", "x"}

\* Every text of up to MaxVersionLen of these characters.
VersionTexts == UNION {[1..n -> VersionChars] : n \in 1..MaxVersionLen}

\* The one-line manifest that assigns the version v.
ManifestOf(v) == VersionWord \o <<" ", "=", " ", "\"">> \o v \o <<"\"", "\n">>

\* A run on a one-line manifest, once lines 40-55 have extracted its version.
VersionInit ==
    /\ os_name = "posix"
    /\ current_version \in VersionTexts
    /\ pyproject = ManifestOf(current_version)
    /\ pyproject_orig = pyproject
    /\ content = ReadText(pyproject)
    /\ writes = 0
    /\ env_file = None
    /\ pc = "increment"
    /\ new_version = None
    /\ new_content = None
    /\ pypi_token = None
    /\ calls = <<>>
    /\ out = <<>>
    /\ ConvIdle

\* The increment and persist steps, and the ways out of a failed increment.
VersionNext ==
    \/ IncrementVersion
    \/ PersistVersion
    \/ HandleException
    \/ FinalPrompt

VersionSpec == VersionInit /\ [][VersionNext]_vars

\* ================================================== convert_to_vector.py
\* max_size = 512
max_size == 512

\* conversions = [("appIcon.png", "appIcon.svg", "icon"), ...]
conversions ==
    << [png_name |-> "appIcon.png", svg_name |-> "appIcon.svg", optimize_type |-> "icon"],
       [png_name |-> "splash.png", svg_name |-> "splash.svg", optimize_type |-> "splash"] >>

\* A file that is not there, a file Image.open cannot decode, a PNG image.
NoFile == [kind |-> "absent", width |-> 0, height |-> 0]
BadFile == [kind |-> "undecodable", width |-> 0, height |-> 0]
Png(w, h) == [kind |-> "png", width |-> w, height |-> h]

\* The image sides the source files are drawn from.
Sides == {1, 3} \cup {256 * k + d : k \in 1..MaxUnits, d \in {0, 1}}
SourceFiles == {NoFile, BadFile} \cup {Png(w, h) : w \in Sides, h \in Sides}

\* No SVG at a destination path.
NoSvg == [written |-> FALSE, width |-> 0, height |-> 0, viewBox |-> <<0, 0, 0, 0>>,
          title |-> "", desc |-> "", image |-> <<0, 0>>]

Max(a, b) == IF a >= b THEN a ELSE b
Abs(a) == IF a < 0 THEN 0 - a ELSE a
Floor(num, den) == num \div den
Ceil(num, den) == (num + den - 1) \div den

\* Pillow's Image.thumbnail((x, y)) on a w by h image, the size it gives the
\* image: unchanged when the image fits the box; otherwise the side that
\* limits is set to the box and the other is the floor or the ceiling of
\* its exact value, whichever keeps the aspect ratio closer (the floor on a
\* tie), and at least 1.
Thumbnail(w, h, x, y) ==
    IF x >= w /\ y >= h THEN <<w, h>>
    ELSE IF x * h >= y * w
    THEN \* x = round_aspect(y * aspect, key = |aspect - n / y|)
         LET f == Floor(y * w, h)
             c == Ceil(y * w, h)
             n == IF Abs(y * w - f * h) <= Abs(y * w - c * h) THEN f ELSE c
         IN  <<Max(n, 1), y>>
    ELSE \* y = round_aspect(x / aspect, key = 0 if n == 0 else |aspect - x / n|)
         LET f == Floor(x * h, w)
             c == Ceil(x * h, w)
             n == IF f = 0 \/ Abs(w * f - x * h) * c <= Abs(w * c - x * h) * f
                  THEN f ELSE c
         IN  <<x, Max(n, 1)>>

\* A test that resizes whatever the category.
NeedsResizeAnyCategory(optimize_for, w, h) == Max(w, h) > max_size

\* if optimize_for == "icon": ... if max(img.size) > max_size
NeedsResize(optimize_for, w, h) ==
    optimize_for = "icon" /\ Max(w, h) > max_size

\* img.size after lines 19-29 of png_to_svg.
ImageSize(img, optimize_for) ==
    IF NeedsResize(optimize_for, img.width, img.height)
    THEN Thumbnail(img.width, img.height, max_size, max_size)
    ELSE <<img.width, img.height>>

\* png_to_svg(png_path, svg_path, optimize_for): the SVG document written.
png_to_svg(img, png_name, optimize_for) ==
    LET size == ImageSize(img, optimize_for)
    IN  [written |-> TRUE, width |-> size[1], height |-> size[2],
         viewBox |-> <<0, 0, size[1], size[2]>>,
         title |-> optimize_for, desc |-> png_name, image |-> size]

\* A loop that stops at the first missing source.
AfterMissingStop(i) == Len(conversions) + 1

\* The pair the loop goes on with after a missing source.
AfterMissing(i) == i + 1

\* Lines 76-90: the source exists and decodes: convert it.
ConvertPair ==
    /\ conv_pc = "loop"
    /\ conv_i <= Len(conversions)
    /\ sources[conv_i].kind = "png"
    /\ svgs' = [svgs EXCEPT ![conv_i] =
                   png_to_svg(sources[conv_i], conversions[conv_i].png_name,
                              conversions[conv_i].optimize_type)]
    /\ conv_out' = conv_out \o <<"Converting", "Original", "Created", "Size change">>
    /\ conv_i' = conv_i + 1
    /\ UNCHANGED <<conv_pc, sources>>
    /\ UNCHANGED pubVars

\* Lines 76-80: the source exists but Image.open raises; nothing catches it.
DecodeError ==
    /\ conv_pc = "loop"
    /\ conv_i <= Len(conversions)
    /\ sources[conv_i].kind = "undecodable"
    /\ conv_out' = conv_out \o <<"Converting", "Traceback">>
    /\ conv_pc' = "crashed"
    /\ UNCHANGED <<conv_i, sources, svgs>>
    /\ UNCHANGED pubVars

\* Lines 92-93: the source is missing: report it and go on.
SkipMissing ==
    /\ conv_pc = "loop"
    /\ conv_i <= Len(conversions)
    /\ sources[conv_i].kind = "absent"
    /\ conv_out' = conv_out \o <<"not found">>
    /\ conv_i' = AfterMissing(conv_i)
    /\ UNCHANGED <<conv_pc, sources, svgs>>
    /\ UNCHANGED pubVars

\* Lines 95-97: the loop is over: the completion message.
Complete ==
    /\ conv_pc = "loop"
    /\ conv_i > Len(conversions)
    /\ conv_out' = conv_out \o <<"Vector conversion complete!">>
    /\ conv_pc' = "done"
    /\ UNCHANGED <<conv_i, sources, svgs>>
    /\ UNCHANGED pubVars

\* The publisher does not run in a converter run.
PubIdle ==
    /\ os_name = "nt"
    /\ pyproject = Absent
    /\ pyproject_orig = Absent
    /\ writes = 0
    /\ env_file = None
    /\ pc = "idle"
    /\ content = None
    /\ current_version = None
    /\ new_version = None
    /\ new_content = None
    /\ pypi_token = None
    /\ calls = <<>>
    /\ out = <<>>

ConvInit ==
    /\ conv_pc = "loop"
    /\ conv_i = 1
    /\ sources \in [1..Len(conversions) -> SourceFiles]
    /\ svgs = [i \in 1..Len(conversions) |-> NoSvg]
    /\ conv_out = <<"Converting PNG images to SVG vector format...">>
    /\ PubIdle

ConvNext ==
    \/ ConvertPair
    \/ DecodeError
    \/ SkipMissing
    \/ Complete

ConvSpec == ConvInit /\ [][ConvNext]_vars

\* ================================================================ claims
\* How many dots a text holds: a version of n components holds n - 1.
DotCount(s) == Cardinality({i \in 1..Len(s) : s[i] = "."})

\* Position of the last dot of a text that holds one.
RECURSIVE LastDotFrom(_, _)
LastDotFrom(s, i) == IF i = 0 \/ s[i] = "." THEN i ELSE LastDotFrom(s, i - 1)
LastDot(s) == LastDotFrom(s, Len(s))

\* The text after the last dot: the patch component.
PatchText(s) == SubSeq(s, LastDot(s) + 1, Len(s))

AllDigits(s) == s # <<>> /\ \A i \in 1..Len(s) : s[i] \in Digits

\* The number a run of decimal digits writes.
RECURSIVE DecimalValue(_)
DecimalValue(s) ==
    IF Len(s) = 1 THEN DigitVal(s[1])
    ELSE 10 * DecimalValue(SubSeq(s, 1, Len(s) - 1)) + DigitVal(s[Len(s)])

\* A decimal numeral as str() writes it: no leading zero but for "0".
Canonical(s) == AllDigits(s) /\ (Len(s) > 1 => s[1] # "0")

\* A text int() cannot read as a number: empty, or holding a character
\* that is no digit, sign, underscore or whitespace.
\* (NumberChars: the characters int() takes.)
NumberChars == Digits \cup Whitespace \cup {"+", "-", "_"}
NotANumber(s) ==
    \/ s = <<>>
    \/ \E i \in 1..Len(s) : s[i] \notin NumberChars

\* The last message or prompt printed.
LastOut == IF out = <<>> THEN "" ELSE out[Len(out)]
Printed(msg) == \E i \in 1..Len(out) : out[i] = msg

\* How many non-overlapping matches of the version pattern a scan of s
\* from position i finds.
RECURSIVE CountMatches(_, _)
CountMatches(s, i) ==
    IF i > Len(s) THEN 0
    ELSE LET m == VersionMatchAt(s, i)
         IN  IF m.end = 0 THEN CountMatches(s, i + 1)
             ELSE 1 + CountMatches(s, m.end + 1)

\* Where a run is once a halting branch has printed its diagnostic: returned
\* from main(), or, its prompt having raised, on the way out through the
\* handler and the final prompt.  No step of the workflow runs from there.
Halted == {"returned", "except", "finished", "closed"}

\* C1: when the build command returned a non-zero exit code, neither the
\* upload command nor the pip upgrade command is ever run in that run, and
\* the run has ended on the build diagnostic.
C1_BuildFailureStopsRun ==
    (\E i \in CallsOf("build") : calls[i].rc # 0) =>
        /\ CallsOf("twine") = {}
        /\ CallsOf("pip") = {}
        /\ pc \in Halted
        /\ Printed("Build failed")

C1_Witness ==
    /\ pc = "returned"
    /\ \E i \in CallsOf("build") : calls[i].rc = 2

C3_WrongComponentCountHalts ==
    (current_version # None /\ DotCount(current_version) # 2) =>
        /\ writes = 0
        /\ pyproject = pyproject_orig
        /\ new_version = None
        /\ calls = <<>>
        /\ pc \in {"increment"} \cup Halted
        /\ pc # "increment" => Printed("Error: Invalid version format")

C3_Witness ==
    /\ current_version # None
    /\ DotCount(current_version) = 3
    /\ pc = "returned"
    /\ writes = 0

\* C4: for a version X.Y.Z whose patch Z is a run of decimal digits, the
\* increment step yields the text of the version up to and including its
\* second dot, unchanged, followed by the canonical numeral of Z + 1.
C4_PatchIncrementedByOne ==
    (/\ new_version # None
     /\ DotCount(current_version) = 2
     /\ AllDigits(PatchText(current_version))) =>
        LET cut == LastDot(current_version)
        IN  /\ Len(new_version) > cut
            /\ SubSeq(new_version, 1, cut) = SubSeq(current_version, 1, cut)
            /\ Canonical(SubSeq(new_version, cut + 1, Len(new_version)))
            /\ DecimalValue(SubSeq(new_version, cut + 1, Len(new_version)))
                   = DecimalValue(PatchText(current_version)) + 1

C4_Witness ==
    /\ current_version = <<"0", "9", ".", "0", ".", "9">>
    /\ new_version = <<"0", "9", ".", "0", ".", "1", "0">>

\* C5: the persist step replaces only the first span of the manifest that
\* the version pattern matches; the rest of the text, later matching spans
\* included, is as it was.
C5_OnlyFirstSpanReplaced ==
    writes = 1 =>
        ReadText(pyproject) = NewContentFirstOnly(ReadText(pyproject_orig), new_version)

\* C6: for a manifest holding exactly one version assignment, with a valid
\* three-component version, after the persist step the manifest holds
\* exactly one assignment, its value is the incremented version, and the
\* bytes before and after the assignment are identical to the original's.
C6_SingleAssignmentFramePreserved ==
    (/\ writes = 1
     /\ CountMatches(pyproject_orig, 1) = 1
     /\ DotCount(current_version) = 2
     /\ AllDigits(PatchText(current_version))) =>
        LET old == VersionSearch(pyproject_orig)
            new == VersionSearch(pyproject)
        IN  /\ CountMatches(pyproject, 1) = 1
            /\ new.group = new_version
            /\ SubSeq(pyproject, 1, new.start - 1)
                   = SubSeq(pyproject_orig, 1, old.start - 1)
            /\ SubSeq(pyproject, new.end + 1, Len(pyproject))
                   = SubSeq(pyproject_orig, old.end + 1, Len(pyproject_orig))

\* C7: no rollback and no retry: the manifest is written at most once, the
\* build and the upload commands are run at most once each, and from the
\* write on, whatever later step fails, the version the manifest holds is
\* the incremented one and no longer the one extracted.
C7_NoRollbackNoRetry ==
    /\ writes <= 1
    /\ Cardinality(CallsOf("build")) <= 1
    /\ Cardinality(CallsOf("twine")) <= 1
    /\ writes = 1 =>
          /\ VersionSearch(ReadText(pyproject)).group = new_version
          /\ new_version # current_version
    /\ writes = 0 => pyproject = pyproject_orig

C7_Witness ==
    /\ pc = "returned"
    /\ writes = 1
    /\ \E i \in CallsOf("twine") : calls[i].rc # 0
    /\ VersionSearch(ReadText(pyproject)).group = new_version

\* C8, as stated: once the run is over, with appIcon.png missing and
\* splash.png existing, splash.svg has been written and the completion
\* message printed.
C8_SplashConvertedWheneverItExists ==
    (/\ conv_pc \in {"done", "crashed"}
     /\ sources[1].kind = "absent"
     /\ sources[2].kind # "absent") =>
        /\ svgs[2].written
        /\ conv_pc = "done"

\* C8, amended: a missing source is reported and skipped and never gets an
\* SVG, and the loop goes on; with appIcon.png missing, splash.png is
\* converted whenever it exists and decodes, and the run then reaches its
\* completion message; only a source that exists and does not decode ends
\* the run before the completion message.
C8_MissingSourceSkipped ==
    /\ \A i \in 1..Len(conversions) :
          /\ sources[i].kind = "absent" => ~svgs[i].written
          /\ (sources[i].kind = "absent" /\ conv_i > i) =>
                 \E k \in 1..Len(conv_out) : conv_out[k] = "not found"
    /\ conv_pc = "loop" => ENABLED ConvNext
    /\ conv_pc = "crashed" => \E i \in 1..Len(conversions) : sources[i].kind = "undecodable"
    /\ conv_pc = "done" =>
          \A i \in 1..Len(conversions) : sources[i].kind = "png" => svgs[i].written
    /\ (conv_pc # "loop" /\ sources[1].kind = "absent" /\ sources[2].kind = "png") =>
          /\ conv_pc = "done"
          /\ svgs[2].written
          /\ conv_out[Len(conv_out)] = "Vector conversion complete!"

C8_Witness ==
    /\ conv_pc = "done"
    /\ sources[1].kind = "absent"
    /\ sources[2].kind = "png"
    /\ svgs[2].written
    /\ ~svgs[1].written

\* C9: the declared width and height of a written SVG: for the category
\* "icon" with a source side over 512, the longer side is 512, on the same
\* axis as in the source, and the other side is within one pixel of its
\* exact proportional value and at least 1 (1024x768 gives 512x384);
\* otherwise they are the source's width and height.
C9_DeclaredDimensions ==
    \A i \in 1..Len(conversions) :
        svgs[i].written =>
            LET w == sources[i].width
                h == sources[i].height
                W == svgs[i].width
                H == svgs[i].height
            IN  IF conversions[i].optimize_type = "icon" /\ (w > 512 \/ h > 512)
                THEN /\ Max(W, H) = 512
                     /\ W >= 1 /\ H >= 1
                     /\ IF w >= h
                        THEN W = 512 /\ Abs(H * w - 512 * h) < w
                        ELSE H = 512 /\ Abs(W * h - 512 * w) < h
                     /\ (w = 1024 /\ h = 768) => (W = 512 /\ H = 384)
                ELSE W = w /\ H = h

C9_Witness ==
    /\ svgs[1].written
    /\ sources[1] = Png(1024, 768)
    /\ svgs[1].width = 512
    /\ svgs[1].height = 384

\* C10: when the extracted version has three components and a patch that
\* int() cannot read, the run raises before the manifest write: the manifest
\* is as it was, no folder is removed, no command is run, the error is
\* printed by the top-level handler and not by the invalid-format branch,
\* and the run goes on to the final prompt.
C10_UnparseablePatchRaises ==
    (/\ current_version # None
     /\ DotCount(current_version) = 2
     /\ NotANumber(PatchText(current_version))) =>
        /\ writes = 0
        /\ pyproject = pyproject_orig
        /\ calls = <<>>
        /\ pc \in {"increment", "except", "finished", "closed"}
        /\ pc # "increment" =>
              /\ Printed("Unexpected error: ValueError")
              /\ ~Printed("Error: Invalid version format")
        /\ pc # "closed" => ENABLED Next
        /\ pc = "closed" => Printed("Press Enter to close this window...")

C10_Witness ==
    /\ current_version = <<"1", ".", "2", ".", "3", "r", "c", "1">>
    /\ pc = "closed"
    /\ Printed("Unexpected error: ValueError")
    /\ LastOut = "Press Enter to close this window..."

====
